---- MODULE Spec2Model ----
(***************************************************************************)
(* The client agent of src/client/client.go: its allocation watcher, the   *)
(* reconciler (run / runAllocs), the alloc runners' status updates, the    *)
(* status sync loop (allocSync), registration and heartbeating, and the    *)
(* node ID persistence.                                                    *)
(***************************************************************************)
EXTENDS Integers, Sequences, FiniteSets, TLC

\* ------------------------------------------------------------------ bounds

\* The allocations the servers may assign to this node.
AllocIDs == {"a", "b"}

\* More allocations than the chain, for a diff with every kind of entry.
DiffIDs == AllocIDs \cup {"c", "d"}

\* The allocations of a pass: one to remove, one to update, one to add.
PassIDs == AllocIDs \cup {"c"}

\* The empty PreviousAllocation of an allocation that is not chained.
NoAlloc == "none"

\* Allocation b is chained to allocation a, and c to b.
PrevOf(id) == IF id = "b" THEN "a" ELSE IF id = "c" THEN "b" ELSE NoAlloc

\* Largest index (AllocModifyIndex, response Index) the servers return.
MaxIndex == 2

\* Capacity of the status channel c.allocUpdates in the model.
StatusChanCap == 1

\* The updates counted per allocation between two ticks: WindowCap stands
\* for WindowCap or more.
WindowCap == 2

\* Capacity of the watcher's channel of update records in the model.
UpdatesChanCap == 1

\* The goroutines that execute runAllocs: 1 is the run loop.
RunLoop == 1
Reconcilers == {1, 2}

\* ------------------------------------------------------------------ helpers

Put(f, k, v) == [x \in DOMAIN f \cup {k} |-> IF x = k THEN v ELSE f[x]]

Del(f, k) == [x \in DOMAIN f \ {k} |-> f[x]]

Max(x, y) == IF x > y THEN x ELSE y

EmptyMap == [x \in {} |-> 0]

\* ------------------------------------------------------------------ data

\* The allocations some allocation is chained to.
Predecessors == {PrevOf(id) : id \in AllocIDs} \ {NoAlloc}

\* structs.Allocation, the fields the client reads.
Allocation(id, idx) ==
    [ID |-> id, PreviousAllocation |-> PrevOf(id), AllocModifyIndex |-> idx]

\* The client status values; a runner starts pending.
ClientStatuses == {"pending", "running", "complete", "failed", "lost"}

\* Allocation.Terminated: the client status is terminal.
Terminated(status) == status \in {"complete", "failed", "lost"}

\* The statuses an alloc runner can move to from a status (none once terminal).
NextStatus(status) ==
    IF status = "pending" THEN {"running", "complete", "failed"}
    ELSE IF status = "running" THEN {"complete", "failed"}
    ELSE {}

\* NewAllocRunner: a runner owning the allocation; dirty = it has a status
\* it has not yet handed to updateAllocStatus.
NewAllocRunner(alloc) == [alloc |-> alloc, status |-> "pending", dirty |-> FALSE]

\* AllocRunner.shouldUpdate(serverIndex)
ShouldUpdate(runner, serverIndex) == runner.alloc.AllocModifyIndex < serverIndex

\* updateAllocStatus: only the fields the client may update are sent.
Stripped(id, status) == [ID |-> id, ClientStatus |-> status]

VARIABLES
    shutdown,       \* c.shutdown / c.shutdownCh closed
    devMode,        \* c.config.DevMode
    allocs,         \* c.allocs: alloc ID -> runner
    destroyed,      \* runners removed from c.allocs by Destroy that still owe their last update
    blocked,        \* c.blockedAllocations: previous alloc ID -> allocation
    allocUpdates,   \* c.allocUpdates: channel of stripped allocations
    wpc,            \* watchAllocations: poll, retry, push, done
    MinQueryIndex,  \* req.MinQueryIndex of watchAllocations
    wUpdate,        \* the update record watchAllocations is about to push
    updatesCh,      \* the channel of update records made by run
    runPc,          \* per reconciler: idle, run, block, done
    removed,        \* per reconciler: diff.removed still to apply
    updated,        \* per reconciler: diff.updated still to apply
    added,          \* per reconciler: diff.added still to apply
    cur,            \* per reconciler: the allocation about to enter the blocked index
    spc,            \* allocSync: select, rpc, done
    updates,        \* allocSync: its batch, alloc ID -> latest stripped allocation
    staggered,      \* allocSync: the ticker runs at the retry interval
    syncReq,        \* the Node.UpdateAlloc request in flight
    syncAlloc,      \* allocSync: the update it received and is releasing the blocked allocation of
    \* history
    held,           \* allocations runAllocs blocked and nobody instantiated since
    termSeen,       \* predecessors whose terminal update allocSync has received
    window,         \* alloc ID -> the updates allocSync received for it since its last call
    latest,         \* alloc ID -> the last message allocSync received for it
    serverSeen,     \* alloc ID -> the status the last successful Node.UpdateAlloc carried
    respIndex,      \* watchAllocations: resp.Index of the last Node.GetClientAllocs that answered
    respAllocs,     \* watchAllocations: resp.Allocs, reset before every Node.GetClientAllocs
    \* registration and heartbeat
    hpc,            \* registerAndHeartbeat: register, backoff, wait, arm
    npc,            \* watchNodeUpdates: off, wait, register, backoff
    nodeStatus,     \* c.config.Node.Status
    heartbeatTTL,   \* c.heartbeatTTL
    armed,          \* what the heartbeat timer was last armed with
    quorum,         \* c.lastHeartbeatFromQuorum
    hbResp,         \* updateNodeStatus: the last response Node.UpdateStatus returned
    attrs,          \* the node's attributes and meta, as a version
    attrsSeen,      \* watchNodeUpdates: the version its hashes were taken of
    stale,          \* the last heartbeat failed with node not found
    regCalls,       \* Node.Register calls since that failure
    hbRegOK,        \* successful ones among them made by registerAndHeartbeat
    \* node ID
    ipc,            \* the agent process: down, up, failed
    idFile,         \* the file <state>/client-id
    nodeID,         \* c.config.Node.ID
    prevID,         \* the node ID of the run before this one
    issued,         \* the UUIDs GenerateUUID returned so far
    \* teardown
    allocLock,      \* c.allocLock: 0, or the Shutdown call that holds it
    shutdownLock,   \* c.shutdownLock: 0, or the Shutdown call that holds it
    tpc,            \* Shutdown call -> idle, lock, destroy, wait, close, done
    todo,           \* Shutdown call -> the runners left to destroy and the one waited for
    tally,          \* what the Shutdown calls did, counted
    lpc,            \* periodicSnapshot, fingerprintPeriodic, collectHostStats: run, done
    boot,           \* NewClient: where it is, what is left to fingerprint and to restore
    lk              \* per thread of the lock model: its position in its sequence of lock operations

agentVars == <<shutdown, devMode, allocs, destroyed, blocked, allocUpdates>>
watchVars == <<wpc, MinQueryIndex, respIndex, respAllocs, wUpdate, updatesCh>>
runVars == <<runPc, removed, updated, added, cur>>
syncVars == <<spc, updates, staggered, syncReq, syncAlloc, window, latest, serverSeen>>
histVars == <<held, termSeen>>

hbVars == <<hpc, npc, nodeStatus, heartbeatTTL, armed, quorum, hbResp, attrs, attrsSeen,
            stale, regCalls, hbRegOK>>
idVars == <<ipc, idFile, nodeID, prevID, issued>>
downVars == <<allocLock, shutdownLock, tpc, todo, tally, lpc, boot, lk>>
nodeVars == <<hbVars, idVars, downVars>>

vars == <<agentVars, watchVars, runVars, syncVars, histVars, nodeVars>>

\* ------------------------------------------------------------------ NewClient

InitAgent ==
    /\ shutdown = FALSE
    /\ devMode = FALSE
    /\ allocs = EmptyMap
    /\ destroyed = {}
    /\ blocked = EmptyMap
    /\ allocUpdates = <<>>

InitWatch ==
    /\ wpc = "poll"
    /\ MinQueryIndex = 0
    /\ respIndex = 0
    /\ respAllocs = EmptyMap
    /\ wUpdate = <<>>
    /\ updatesCh = <<>>

InitRun ==
    /\ runPc = [t \in Reconcilers |-> "idle"]
    /\ removed = [t \in Reconcilers |-> {}]
    /\ updated = [t \in Reconcilers |-> {}]
    /\ added = [t \in Reconcilers |-> {}]
    /\ cur = [t \in Reconcilers |-> <<>>]

InitSync ==
    /\ spc = "select"
    /\ updates = EmptyMap
    /\ staggered = FALSE
    /\ syncReq = {}
    /\ syncAlloc = <<>>
    /\ window = [id \in DiffIDs |-> 0]
    /\ latest = EmptyMap
    /\ serverSeen = EmptyMap

InitHist ==
    /\ held = {}
    /\ termSeen = {}

\* The UUIDs GenerateUUID can return.
UUIDs == {"u1", "u2", "u3", "u4"}

\* A file that does not exist, and the bytes of a string: []byte(id).
NoFile == [exists |-> FALSE, len |-> 0, data |-> ""]
ToBytes(id) == [exists |-> TRUE, len |-> IF id = "" THEN 0 ELSE 1, data |-> id]

\* string(idBuf)
FromBytes(idBuf) == idBuf.data

\* updateNodeStatus has received no response.
NoResponse == [got |-> FALSE, ttl |-> 0, leader |-> FALSE]

\* Heartbeat TTLs the servers hand out.
MaxTTL == 2
TTLs == 1 .. MaxTTL

\* Node.Register calls counted after a heartbeat that found the node
\* unknown: MaxTries stands for MaxTries or more.
MaxTries == 3

\* The callers of Shutdown.
Callers == {1, 2}

\* The loops that only tick: periodicSnapshot, fingerprintPeriodic and
\* collectHostStats.
Tickers == {"snapshot", "fingerprint", "stats"}

\* fingerprint.BuiltinFingerprints(), in its order.
BuiltinFingerprints == <<"arch", "cpu", "host">>

\* ArchFingerprint.Fingerprint returns no error; the others may.
CanFail(name) == name # "arch"

\* NewClient has returned the client: every fingerprinter ran and nothing
\* was left to restore.
Booted ==
    [pc |-> "started", whitelist |-> {}, fps |-> <<>>,
     ran |-> {BuiltinFingerprints[i] : i \in DOMAIN BuiltinFingerprints}, fpErr |-> {},
     entries |-> <<>>, mErr |-> {}, launched |-> {}]

\* Shutdown has not been called and the tickers run.
\* The threads of the lock model.
LockThreads == {"allocSync", "runAllocs", "Stats", "registerAndHeartbeat",
                "fingerprintPeriodic", "Shutdown"}

InitShut ==
    /\ allocLock = 0
    /\ shutdownLock = 0
    /\ tpc = [c \in Callers |-> "idle"]
    /\ todo = [c \in Callers |-> [left |-> {}, cur |-> {}]]
    /\ tally = [closes |-> 0, pools |-> 0, saves |-> 0, destroys |-> [id \in DiffIDs |-> 0]]
    /\ lpc = [l \in Tickers |-> "run"]
    /\ lk = [t \in LockThreads |-> 1]

InitDown == InitShut /\ boot = Booted

\* The node is registered and heartbeating, with its ID set up.
InitNode ==
    /\ InitDown
    /\ hpc = "wait"
    /\ npc = "wait"
    /\ nodeStatus = "ready"
    /\ heartbeatTTL = 1
    /\ armed = <<"ttl", 1>>
    /\ quorum = 1
    /\ hbResp = [got |-> TRUE, ttl |-> 1, leader |-> TRUE]
    /\ attrs = 0
    /\ attrsSeen = 0
    /\ stale = FALSE
    /\ regCalls = 0
    /\ hbRegOK = 0
    /\ ipc = "up"
    /\ idFile = ToBytes("u1")
    /\ nodeID = "u1"
    /\ prevID = ""
    /\ issued = {"u1"}

Init == InitAgent /\ InitWatch /\ InitRun /\ InitSync /\ InitHist /\ InitNode

\* ------------------------------------------------------------------ addAlloc

\* The shutdown case of a select is ready when the channel is closed.
ShutdownNeverReady(flag) == FALSE

ShutdownReady(flag) == flag

\* addAlloc: create a runner, launch it and store it in c.allocs.
AddAlloc(alloc) ==
    /\ allocLock = 0
    /\ allocs' = Put(allocs, alloc.ID, NewAllocRunner(alloc))
    /\ held' = held \ {alloc.ID}

\* ------------------------------------------------------------------ watchAllocations

\* A filtering that pulls only the allocations without a runner.
PullUnknown(respMap, runners) == {id \in DOMAIN respMap : id \notin DOMAIN runners}

\* The filtering of a Node.GetClientAllocs response: the IDs to pull.
PullSet(respMap, runners) ==
    {id \in DOMAIN respMap :
        id \notin DOMAIN runners \/ ShouldUpdate(runners[id], respMap[id])}

FilteredSet(respMap, runners) == DOMAIN respMap \ PullSet(respMap, runners)

\* An index that follows the response.
AssignIndex(minIndex, index) == index

\* The update of req.MinQueryIndex after a poll.
AdvanceIndex(minIndex, index) == IF index > minIndex THEN index ELSE minIndex

\* One iteration of the loop up to the push: Node.GetClientAllocs, the
\* filtering, Alloc.GetAllocs and the index update. The servers answer with
\* the allocations of one of idSets, a response index of respIndexes and
\* modify indexes of modIndexes.
WatchPollOf(idSets, respIndexes, modIndexes) ==
    /\ wpc = "poll"
    /\ \/ \* Node.GetClientAllocs fails
          /\ wpc' = "retry"
          /\ respAllocs' = EmptyMap
          /\ UNCHANGED <<MinQueryIndex, respIndex, wUpdate, updatesCh>>
       \/ \* the pull set is not empty and Alloc.GetAllocs fails
          /\ ~shutdown
          /\ allocLock = 0
          /\ \E ids \in idSets : \E respMap \in [ids -> modIndexes] :
                /\ PullSet(respMap, allocs) # {}
                /\ respAllocs' = respMap
          /\ \E idx \in respIndexes : respIndex' = idx
          /\ wpc' = "retry"
          /\ UNCHANGED <<MinQueryIndex, wUpdate, updatesCh>>
       \/ \* both succeed
          /\ ~shutdown
          /\ allocLock = 0
          /\ \E ids \in idSets, idx \in respIndexes :
             \E respMap \in [ids -> modIndexes] :
                LET pull == PullSet(respMap, allocs)
                    pulled == [id \in pull |-> Allocation(id, respMap[id])]
                    update == [pulled |-> pulled,
                               filtered |-> FilteredSet(respMap, allocs)]
                IN  /\ respIndex' = idx
                    /\ MinQueryIndex' = AdvanceIndex(MinQueryIndex, idx)
                    /\ IF Len(updatesCh) < UpdatesChanCap
                       THEN \* the send goes through at once
                            /\ updatesCh' = Append(updatesCh, update)
                            /\ wpc' = "poll"
                            /\ respAllocs' = EmptyMap
                            /\ UNCHANGED wUpdate
                       ELSE /\ wUpdate' = <<update>>
                            /\ wpc' = "push"
                            /\ respAllocs' = respMap
                            /\ UNCHANGED updatesCh
    /\ UNCHANGED <<agentVars, runVars, syncVars, histVars, nodeVars>>

\* The servers may answer with any set of allocations.
WatchPoll(respIndexes, modIndexes) == WatchPollOf(SUBSET AllocIDs, respIndexes, modIndexes)

\* The backoff after a failed RPC is over.
WatchRetry ==
    /\ wpc = "retry"
    /\ wpc' = "poll"
    /\ respAllocs' = EmptyMap
    /\ UNCHANGED <<agentVars, MinQueryIndex, respIndex, wUpdate, updatesCh, runVars, syncVars, histVars, nodeVars>>

\* The push of the update record a full channel held back.
WatchPush ==
    /\ wpc = "push"
    /\ Len(updatesCh) < UpdatesChanCap
    /\ updatesCh' = Append(updatesCh, wUpdate[1])
    /\ wpc' = "poll"
    /\ wUpdate' = <<>>
    /\ respAllocs' = EmptyMap
    /\ UNCHANGED <<agentVars, MinQueryIndex, respIndex, runVars, syncVars, histVars, nodeVars>>

\* The watcher sees the shutdown channel closed: after an RPC, in the
\* backoff or in the push.
WatchExit ==
    /\ wpc \in {"poll", "retry", "push"}
    /\ ShutdownReady(shutdown)
    /\ wpc' = "done"
    /\ wUpdate' = <<>>
    /\ respAllocs' = EmptyMap
    /\ UNCHANGED <<agentVars, MinQueryIndex, respIndex, updatesCh, runVars, syncVars, histVars, nodeVars>>

\* ------------------------------------------------------------------ run, runAllocs

\* getAllocRunners: a snapshot of c.allocs.
GetAllocRunners == allocs

\* A collection that leaves out the runners of terminal allocations.
LiveAllocs(runners) ==
    {runners[id].alloc : id \in {i \in DOMAIN runners : ~Terminated(runners[i].status)}}

\* The existing allocations runAllocs collects from c.allocs.
ExistingAllocs(runners) == {runners[id].alloc : id \in DOMAIN runners}

\* diffAllocs: removed, updated and added of the existing allocations
\* against an update record.
DiffRemoved(exist, update) ==
    {e \in exist : e.ID \notin DOMAIN update.pulled /\ e.ID \notin update.filtered}

DiffUpdated(exist, update) ==
    {[exist |-> e, updated |-> update.pulled[e.ID]] :
        e \in {x \in exist : x.ID \in DOMAIN update.pulled}}

DiffAdded(exist, update) ==
    {update.pulled[id] : id \in DOMAIN update.pulled \ {e.ID : e \in exist}}

\* The head of runAllocs: the snapshot of the existing allocations and the diff.
StartPass(t, update) ==
    LET exist == ExistingAllocs(GetAllocRunners)
    IN  /\ removed' = [removed EXCEPT ![t] = DiffRemoved(exist, update)]
        /\ updated' = [updated EXCEPT ![t] = DiffUpdated(exist, update)]
        /\ added' = [added EXCEPT ![t] = DiffAdded(exist, update)]
        /\ runPc' = [runPc EXCEPT ![t] = "run"]

\* run: an update record arrives and runAllocs starts on it.
RunReceive ==
    /\ runPc[RunLoop] = "idle"
    /\ updatesCh # <<>>
    /\ allocLock = 0
    /\ StartPass(RunLoop, Head(updatesCh))
    /\ updatesCh' = Tail(updatesCh)
    /\ UNCHANGED <<agentVars, wpc, MinQueryIndex, respIndex, respAllocs, wUpdate, cur, syncVars, histVars, nodeVars>>

\* run: the shutdown channel is closed.
RunExit ==
    /\ runPc[RunLoop] = "idle"
    /\ ShutdownReady(shutdown)
    /\ runPc' = [runPc EXCEPT ![RunLoop] = "done"]
    /\ UNCHANGED <<agentVars, watchVars, removed, updated, added, cur, syncVars, histVars, nodeVars>>

\* AllocRunner.Destroy on a runner taken out of c.allocs: unless it is
\* terminal and has reported it, it still sends its last update.
Destroy(id, runner) ==
    IF Terminated(runner.status) /\ ~runner.dirty THEN destroyed ELSE destroyed \cup {id}

\* removeAlloc for one entry of diff.removed, up to the release of the
\* alloc lock: the runner is looked up and deleted from c.allocs.
RemoveAlloc(t) ==
    /\ runPc[t] = "run"
    /\ allocLock = 0
    /\ \E rm \in removed[t] :
          /\ removed' = [removed EXCEPT ![t] = @ \ {rm}]
          /\ IF rm.ID \in DOMAIN allocs
             THEN /\ allocs' = Del(allocs, rm.ID)
                  /\ cur' = [cur EXCEPT ![t] = <<[ID |-> rm.ID, ar |-> allocs[rm.ID]]>>]
                  /\ runPc' = [runPc EXCEPT ![t] = "destroy"]
             ELSE UNCHANGED <<allocs, cur, runPc>>
    /\ UNCHANGED <<shutdown, devMode, destroyed, blocked, allocUpdates, watchVars,
                   updated, added, syncVars, histVars, nodeVars>>

\* removeAlloc: ar.Destroy() on the runner it deleted.
DestroyRemoved(t) ==
    /\ runPc[t] = "destroy"
    /\ destroyed' = Destroy(cur[t][1].ID, cur[t][1].ar)
    /\ cur' = [cur EXCEPT ![t] = <<>>]
    /\ runPc' = [runPc EXCEPT ![t] = "run"]
    /\ UNCHANGED <<shutdown, devMode, allocs, blocked, allocUpdates, watchVars,
                   removed, updated, added, syncVars, histVars, nodeVars>>

\* updateAlloc for one entry of diff.updated: AllocRunner.Update.
UpdateAlloc(t) ==
    /\ runPc[t] = "run"
    /\ allocLock = 0
    /\ removed[t] = {}
    /\ \E up \in updated[t] :
          /\ updated' = [updated EXCEPT ![t] = @ \ {up}]
          /\ IF up.exist.ID \in DOMAIN allocs
             THEN allocs' = [allocs EXCEPT ![up.exist.ID].alloc = up.updated]
             ELSE UNCHANGED allocs
    /\ UNCHANGED <<shutdown, devMode, destroyed, blocked, allocUpdates,
                   watchVars, runPc, removed, added, cur, syncVars, histVars, nodeVars>>

\* A loop over diff.added that does not wait for the two loops before it.
AddedAnyTime(t) == TRUE

\* The loop over diff.added starts when the loops over diff.removed and
\* diff.updated have ended.
AddedTurn(t) == removed[t] = {} /\ updated[t] = {}

\* The chain guard of runAllocs: the previous allocation has a runner that
\* has not terminated.
MustBlock(add, runners) ==
    /\ add.PreviousAllocation \in DOMAIN runners
    /\ ~Terminated(runners[add.PreviousAllocation].status)

\* One entry of diff.added: it is started, or found chained to a running
\* allocation and about to be blocked.
AddOrBlock(t) ==
    /\ runPc[t] = "run"
    /\ allocLock = 0
    /\ AddedTurn(t)
    /\ \E add \in added[t] :
          /\ added' = [added EXCEPT ![t] = @ \ {add}]
          /\ IF MustBlock(add, GetAllocRunners)
             THEN /\ runPc' = [runPc EXCEPT ![t] = "block"]
                  /\ cur' = [cur EXCEPT ![t] = <<add>>]
                  /\ UNCHANGED <<allocs, histVars>>
             ELSE /\ UNCHANGED termSeen
                  /\ AddAlloc(add)
                  /\ UNCHANGED <<runPc, cur>>
    /\ UNCHANGED <<shutdown, devMode, destroyed, blocked, allocUpdates,
                   watchVars, removed, updated, syncVars, nodeVars>>

\* A blocked index keyed by the waiting allocation's own ID.
BlockedKeyOwn(add) == add.ID

\* The key of c.blockedAllocations an allocation is stored under.
BlockedKey(add) == add.PreviousAllocation

\* The chained allocation enters c.blockedAllocations.
BlockAlloc(t) ==
    /\ runPc[t] = "block"
    /\ LET add == cur[t][1]
       IN  /\ blocked' = Put(blocked, BlockedKey(add), add)
           /\ held' = held \cup {add.ID}
    /\ cur' = [cur EXCEPT ![t] = <<>>]
    /\ runPc' = [runPc EXCEPT ![t] = "run"]
    /\ UNCHANGED <<shutdown, devMode, allocs, destroyed, allocUpdates,
                   watchVars, removed, updated, added, syncVars, termSeen, nodeVars>>

\* The end of runAllocs: saveState has every runner persist its state.
FinishPass(t) ==
    /\ runPc[t] = "run"
    /\ removed[t] = {} /\ updated[t] = {} /\ added[t] = {}
    /\ runPc' = [runPc EXCEPT ![t] = "idle"]
    /\ UNCHANGED <<shutdown, devMode, allocs, destroyed, blocked, allocUpdates,
                   watchVars, removed, updated, added, cur, syncVars, histVars, nodeVars>>

\* ------------------------------------------------------------------ alloc runners

\* updateAllocStatus: the send of the stripped allocation to c.allocUpdates.
UpdateAllocStatus(id, status) ==
    /\ Len(allocUpdates) < StatusChanCap
    /\ allocUpdates' = Append(allocUpdates, Stripped(id, status))

\* updateAllocStatus: the shutdown channel is closed and the update is dropped.
UpdateAllocStatusDropped ==
    /\ shutdown
    /\ UNCHANGED allocUpdates

\* A runner's allocation changes client status to s.
RunnerProgress(id, s) ==
    /\ id \in DOMAIN allocs
    /\ s \in NextStatus(allocs[id].status)
    /\ allocs' = [allocs EXCEPT ![id].status = s, ![id].dirty = TRUE]
    /\ UNCHANGED <<shutdown, devMode, destroyed, blocked, allocUpdates,
                   watchVars, runVars, syncVars, histVars, nodeVars>>

\* A runner reports its allocation's status.
RunnerSync(id) ==
    /\ id \in DOMAIN allocs
    /\ allocs[id].dirty
    /\ UpdateAllocStatus(id, allocs[id].status)
    /\ allocs' = [allocs EXCEPT ![id].dirty = FALSE]
    /\ UNCHANGED <<shutdown, devMode, destroyed, blocked,
                   watchVars, runVars, syncVars, histVars, nodeVars>>

\* A destroyed runner reports its terminal status.
DestroyedSync(id) ==
    /\ id \in destroyed
    /\ UpdateAllocStatus(id, "complete")
    /\ destroyed' = destroyed \ {id}
    /\ UNCHANGED <<shutdown, devMode, allocs, blocked,
                   watchVars, runVars, syncVars, histVars, nodeVars>>

\* A runner's report is dropped at shutdown.
RunnerSyncDropped(id) ==
    /\ \/ /\ id \in DOMAIN allocs
          /\ allocs[id].dirty
          /\ allocs' = [allocs EXCEPT ![id].dirty = FALSE]
          /\ UNCHANGED destroyed
       \/ /\ id \in destroyed
          /\ destroyed' = destroyed \ {id}
          /\ UNCHANGED allocs
    /\ UpdateAllocStatusDropped
    /\ UNCHANGED <<shutdown, devMode, blocked, watchVars, runVars, syncVars, histVars, nodeVars>>

\* ------------------------------------------------------------------ allocSync

\* A batch that keeps the first update of an allocation.
BatchPutFirst(batch, alloc) ==
    IF alloc.ID \in DOMAIN batch THEN batch ELSE Put(batch, alloc.ID, alloc)

\* updates[alloc.ID] = alloc
BatchPut(batch, alloc) == Put(batch, alloc.ID, alloc)

\* allocSync receives a status update: it batches it and starts the
\* allocation the updated one was blocking.
SyncReceive ==
    /\ spc = "select"
    /\ allocUpdates # <<>>
    /\ LET alloc == Head(allocUpdates)
       IN  /\ allocUpdates' = Tail(allocUpdates)
           /\ updates' = BatchPut(updates, alloc)
           /\ window' = [window EXCEPT ![alloc.ID] = IF @ < WindowCap THEN @ + 1 ELSE @]
           /\ latest' = Put(latest, alloc.ID, alloc)
           /\ termSeen' = IF Terminated(alloc.ClientStatus) /\ alloc.ID \in Predecessors
                          THEN termSeen \cup {alloc.ID} ELSE termSeen
           /\ IF alloc.ID \in DOMAIN blocked /\ Terminated(alloc.ClientStatus)
              THEN LET blockedAlloc == blocked[alloc.ID]
                   IN  /\ AddAlloc(blockedAlloc)
                       /\ blocked' = Del(blocked, blockedAlloc.PreviousAllocation)
              ELSE UNCHANGED <<allocs, blocked, held>>
    /\ UNCHANGED <<shutdown, devMode, destroyed, watchVars, runVars,
                   spc, staggered, syncReq, syncAlloc, serverSeen, nodeVars>>

\* The same receive in the two steps the alloc lock can separate. First the
\* update is batched and looked up in c.blockedAllocations, under the
\* blocked lock.
SyncTake ==
    /\ spc = "select"
    /\ allocUpdates # <<>>
    /\ LET alloc == Head(allocUpdates)
       IN  /\ allocUpdates' = Tail(allocUpdates)
           /\ updates' = BatchPut(updates, alloc)
           /\ window' = [window EXCEPT ![alloc.ID] = IF @ < WindowCap THEN @ + 1 ELSE @]
           /\ latest' = Put(latest, alloc.ID, alloc)
           /\ termSeen' = IF Terminated(alloc.ClientStatus) /\ alloc.ID \in Predecessors
                          THEN termSeen \cup {alloc.ID} ELSE termSeen
           /\ IF alloc.ID \in DOMAIN blocked /\ Terminated(alloc.ClientStatus)
              THEN spc' = "add" /\ syncAlloc' = <<alloc>>
              ELSE UNCHANGED <<spc, syncAlloc>>
    /\ UNCHANGED <<shutdown, devMode, allocs, destroyed, blocked, watchVars, runVars,
                   staggered, syncReq, serverSeen, held, nodeVars>>

\* Then addAlloc takes the alloc lock for the blocked allocation, and the
\* entry is deleted.
SyncAdd ==
    /\ spc = "add"
    /\ LET blockedAlloc == blocked[syncAlloc[1].ID]
       IN  /\ AddAlloc(blockedAlloc)
           /\ blocked' = Del(blocked, blockedAlloc.PreviousAllocation)
    /\ spc' = "select"
    /\ syncAlloc' = <<>>
    /\ UNCHANGED <<shutdown, devMode, destroyed, allocUpdates, watchVars, runVars,
                   updates, staggered, syncReq, window, latest, serverSeen, termSeen, nodeVars>>

\* The Alloc list of the request: one entry per key of the batch.
SyncList(batch) == {batch[id] : id \in DOMAIN batch}

\* A batch that is dropped whatever Node.UpdateAlloc returned.
BatchDropped(batch, ok) == EmptyMap

\* The batch after Node.UpdateAlloc returned: a new map after a success, the
\* same map after an error.
BatchAfterCall(batch, ok) == IF ok THEN EmptyMap ELSE batch

\* A flag that a successful call leaves as it is.
StaggeredKept(flag, ok) == IF ok THEN flag ELSE TRUE

\* staggered after Node.UpdateAlloc returned: an error replaces the ticker
\* by one of the retry interval and sets the flag, a success puts the
\* 200 ms ticker back when the flag is set and resets it.
StaggeredAfterCall(flag, ok) == IF ok THEN (IF flag THEN FALSE ELSE flag) ELSE TRUE

\* What the servers hold after they applied a request.
Applied(seen, req) ==
    [id \in DOMAIN seen \cup {m.ID : m \in req} |->
        IF \E m \in req : m.ID = id
        THEN (CHOOSE m \in req : m.ID = id).ClientStatus
        ELSE seen[id]]

\* allocSync: the ticker fires with a batch that is not empty and
\* Node.UpdateAlloc is called (with an empty batch the tick does nothing).
SyncTick ==
    /\ spc = "select"
    /\ DOMAIN updates # {}
    /\ syncReq' = SyncList(updates)
    /\ spc' = "rpc"
    /\ UNCHANGED <<agentVars, watchVars, runVars, updates, staggered, syncAlloc,
                   window, latest, serverSeen, histVars, nodeVars>>

\* allocSync: Node.UpdateAlloc returns, with success or with an error.
SyncReply(ok) ==
    /\ spc = "rpc"
    /\ updates' = BatchAfterCall(updates, ok)
    /\ staggered' = StaggeredAfterCall(staggered, ok)
    /\ serverSeen' = IF ok THEN Applied(serverSeen, syncReq) ELSE serverSeen
    /\ syncReq' = {}
    /\ window' = [id \in DiffIDs |-> 0]
    /\ spc' = "select"
    /\ UNCHANGED <<agentVars, watchVars, runVars, syncAlloc, latest, histVars, nodeVars>>

\* allocSync: the shutdown channel is closed.
SyncExit ==
    /\ spc = "select"
    /\ ShutdownReady(shutdown)
    /\ spc' = "done"
    /\ UNCHANGED <<agentVars, watchVars, runVars, updates, staggered, syncReq, syncAlloc,
                   window, latest, serverSeen, histVars, nodeVars>>

\* ------------------------------------------------------------------ Shutdown

\* What the Shutdown calls did is counted up to MaxTally, which stands for
\* MaxTally or more.
MaxTally == 2
Tally(n) == IF n < MaxTally THEN n + 1 ELSE n

\* A check that never finds the client shut down.
NeverShutdown(flag) == FALSE

\* Shutdown returns at once when c.shutdown is set.
AlreadyShutdown(flag) == flag

\* Shutdown takes the shutdown lock and looks at c.shutdown: a later call
\* returns nil, the first one goes on to the runners (dev mode) or to the
\* close.
ShutdownEnter(c) ==
    /\ tpc[c] = "idle"
    /\ shutdownLock = 0
    /\ IF AlreadyShutdown(shutdown)
       THEN /\ tpc' = [tpc EXCEPT ![c] = "done"]
            /\ UNCHANGED shutdownLock
       ELSE /\ shutdownLock' = c
            /\ tpc' = [tpc EXCEPT ![c] = IF devMode THEN "lock" ELSE "close"]
    /\ UNCHANGED <<agentVars, watchVars, runVars, syncVars, histVars, hbVars, idVars,
                   allocLock, todo, tally, lpc, boot, lk>>

\* Shutdown in dev mode takes the alloc lock for its loop over c.allocs.
ShutdownLock(c) ==
    /\ tpc[c] = "lock"
    /\ allocLock = 0
    /\ allocLock' = c
    /\ todo' = [todo EXCEPT ![c] = [left |-> DOMAIN allocs, cur |-> {}]]
    /\ tpc' = [tpc EXCEPT ![c] = "destroy"]
    /\ UNCHANGED <<agentVars, watchVars, runVars, syncVars, histVars, hbVars, idVars,
                   shutdownLock, tally, lpc, boot, lk>>

\* Shutdown in dev mode: ar.Destroy() on the next runner.
ShutdownDestroy(c) ==
    /\ tpc[c] = "destroy"
    /\ \E id \in todo[c].left :
          /\ destroyed' = Destroy(id, allocs[id])
          /\ todo' = [todo EXCEPT ![c] = [left |-> @.left \ {id}, cur |-> {id}]]
          /\ tally' = [tally EXCEPT !.destroys[id] = Tally(@)]
    /\ tpc' = [tpc EXCEPT ![c] = "wait"]
    /\ UNCHANGED <<shutdown, devMode, allocs, blocked, allocUpdates, watchVars, runVars,
                   syncVars, histVars, hbVars, idVars, allocLock, shutdownLock, lpc, boot, lk>>

\* Shutdown in dev mode: <-ar.WaitCh() returns when the runner has sent its
\* last update and left its loop.
ShutdownWait(c) ==
    /\ tpc[c] = "wait"
    /\ todo[c].cur \cap destroyed = {}
    /\ todo' = [todo EXCEPT ![c].cur = {}]
    /\ tpc' = [tpc EXCEPT ![c] = "destroy"]
    /\ UNCHANGED <<agentVars, watchVars, runVars, syncVars, histVars, hbVars, idVars,
                   allocLock, shutdownLock, tally, lpc, boot, lk>>

\* Shutdown in dev mode: the loop is over and the alloc lock is released.
ShutdownUnlock(c) ==
    /\ tpc[c] = "destroy"
    /\ todo[c].left = {}
    /\ allocLock' = 0
    /\ tpc' = [tpc EXCEPT ![c] = "close"]
    /\ UNCHANGED <<agentVars, watchVars, runVars, syncVars, histVars, hbVars, idVars,
                   shutdownLock, todo, tally, lpc, boot, lk>>

\* Shutdown sets c.shutdown, closes the shutdown channel, shuts the
\* connection pool down, saves the state (nothing in dev mode) and returns,
\* which releases the shutdown lock.
ShutdownClose(c) ==
    /\ tpc[c] = "close"
    /\ devMode \/ allocLock = 0
    /\ shutdown' = TRUE
    /\ tally' = [tally EXCEPT !.closes = Tally(@), !.pools = Tally(@),
                              !.saves = IF devMode THEN @ ELSE Tally(@)]
    /\ shutdownLock' = 0
    /\ tpc' = [tpc EXCEPT ![c] = "done"]
    /\ UNCHANGED <<devMode, allocs, destroyed, blocked, allocUpdates, watchVars, runVars,
                   syncVars, histVars, hbVars, idVars, allocLock, todo, lpc, boot, lk>>

Shutdown(c) ==
    \/ ShutdownEnter(c)
    \/ ShutdownLock(c)
    \/ ShutdownDestroy(c)
    \/ ShutdownWait(c)
    \/ ShutdownUnlock(c)
    \/ ShutdownClose(c)

\* ------------------------------------------------------------------ the tickers

\* A ticker's timer fires: periodicSnapshot saves the state,
\* fingerprintPeriodic runs its fingerprinter (a change of the attributes it
\* finds is NodeChange), collectHostStats collects a sample, and the loop is
\* back at its select. The step leaves the variables of this model alone.
Tick(l) ==
    /\ lpc[l] = "run"
    /\ UNCHANGED vars

\* A ticker sees the shutdown channel closed.
TickerExit(l) ==
    /\ lpc[l] = "run"
    /\ ShutdownReady(shutdown)
    /\ lpc' = [lpc EXCEPT ![l] = "done"]
    /\ UNCHANGED <<agentVars, watchVars, runVars, syncVars, histVars, hbVars, idVars,
                   allocLock, shutdownLock, tpc, todo, tally, boot, lk>>

\* ------------------------------------------------------------------ teardown

InitTeardown ==
    /\ InitWatch /\ InitRun /\ InitSync /\ InitNode
    /\ shutdown = FALSE
    /\ devMode \in BOOLEAN
    /\ \E ids \in SUBSET AllocIDs :
          allocs = [id \in ids |-> NewAllocRunner(Allocation(id, 1))]
    /\ destroyed = {}
    /\ blocked = EmptyMap
    /\ allocUpdates = <<>>
    /\ held = {}
    /\ termSeen = {}

NextTeardown ==
    \/ \E c \in Callers : Shutdown(c)
    \/ \E id \in AllocIDs :
          \/ RunnerProgress(id, "complete")
          \/ RunnerSync(id)
          \/ DestroyedSync(id)
          \/ RunnerSyncDropped(id)
    \/ SyncReceive

SpecTeardown == InitTeardown /\ [][NextTeardown]_vars

\* A Shutdown call has returned.
Returned(c) == tpc[c] = "done"

\* C15: Shutdown is idempotent: however many calls there are, the shutdown
\* channel is closed once, the connection pool is shut down once, every
\* runner is destroyed at most once (dev mode) or the state is saved once
\* (otherwise), and once a call has returned exactly one teardown has
\* happened.
SingleTeardown ==
    /\ tally.closes <= 1
    /\ tally.pools <= 1
    /\ tally.saves <= 1
    /\ \A id \in AllocIDs : tally.destroys[id] <= 1
    /\ (\E c \in Callers : Returned(c)) =>
          /\ shutdown
          /\ tally.closes = 1
          /\ tally.pools = 1
          /\ tally.saves = (IF devMode THEN 0 ELSE 1)
          /\ devMode => \A id \in DOMAIN allocs : tally.destroys[id] = 1

SingleTeardownWitness ==
    /\ \A c \in Callers : Returned(c)
    /\ tally.closes = 1
    /\ \E id \in AllocIDs : tally.destroys[id] = 1

\* The allocations of a dev agent: a and d run, b waits for a.
DevIDs == {"a", "b", "d"}

InitDev ==
    /\ InitWatch /\ InitRun /\ InitSync /\ InitNode
    /\ shutdown = FALSE
    /\ devMode = TRUE
    /\ allocs = [id \in {"a", "d"} |-> NewAllocRunner(Allocation(id, 1))]
    /\ destroyed = {}
    /\ blocked = [id \in {"a"} |-> Allocation("b", 1)]
    /\ allocUpdates = <<>>
    /\ held = {"b"}
    /\ termSeen = {}

NextDev ==
    \/ \E c \in Callers : Shutdown(c)
    \/ \E id \in DevIDs :
          \/ \E s \in {"running", "complete"} : RunnerProgress(id, s)
          \/ RunnerSync(id)
          \/ DestroyedSync(id)
          \/ RunnerSyncDropped(id)
    \/ SyncTake
    \/ SyncAdd

SpecDev == InitDev /\ [][NextDev]_vars

\* Shutdown call c holds the alloc lock and waits for the WaitCh of a runner
\* that still has its last update to send.
WaitsForRunner(c) == tpc[c] = "wait" /\ allocLock = c /\ todo[c].cur \cap destroyed # {}

\* A send to c.allocUpdates blocks: the channel is full and the shutdown
\* channel is open.
SendBlocks == Len(allocUpdates) = StatusChanCap /\ ~shutdown

\* allocSync is in addAlloc and the alloc lock is taken.
SyncWaitsForLock == spc = "add" /\ allocLock # 0

\* C28: in dev mode no Shutdown call is left waiting for ever: Shutdown
\* waiting with the alloc lock for a runner, the runner blocked in
\* updateAllocStatus on the full channel and allocSync blocked in addAlloc on
\* the alloc lock do not come together.
DevShutdownReturns ==
    \A c \in Callers : ~(WaitsForRunner(c) /\ SendBlocks /\ SyncWaitsForLock)

\* A Shutdown call is inside ar.Destroy() or <-ar.WaitCh().
InRunnerCall(c) == tpc[c] = "wait"

\* C20: no thread holds the alloc lock while it calls or waits on a runner
\* operation, Shutdown included.
LockFreeRunnerCalls ==
    \A c \in Callers : InRunnerCall(c) => allocLock # c

\* ------------------------------------------------------------------ the agent

\* The reconciliation engine with servers that keep one index and runners
\* that run to completion.
Watcher == WatchPoll({1}, {1}) \/ WatchRetry \/ WatchPush

Reconciler(t) ==
    \/ RemoveAlloc(t)
    \/ DestroyRemoved(t)
    \/ UpdateAlloc(t)
    \/ AddOrBlock(t)
    \/ BlockAlloc(t)
    \/ FinishPass(t)

Runners ==
    \E id \in AllocIDs : RunnerProgress(id, "complete") \/ RunnerSync(id) \/ DestroyedSync(id)

Next ==
    \/ Watcher
    \/ RunReceive
    \/ Reconciler(RunLoop)
    \/ Runners
    \/ SyncReceive

Spec == Init /\ [][Next]_vars

\* ------------------------------------------------------------------ registration and heartbeat

\* retryRegisterNode leaves its loop.
RegisterGivenUp(ok) == TRUE

\* retryRegisterNode leaves its loop when registerNode returned no error.
RegisterDone(ok) == ok

Count(n) == IF n < MaxTries THEN n + 1 ELSE n

\* A registerNode that puts the node back to initializing when
\* Node.Register fails.
StatusReset(status, ok) == IF ok THEN "ready" ELSE "initializing"

\* registerNode: the node is ready once Node.Register has returned without
\* error; an error returns before the status is touched.
StatusAfterRegister(status, ok) == IF ok THEN "ready" ELSE status

\* registerNode within retryRegisterNode, called by registerAndHeartbeat:
\* Node.Register succeeds with a TTL or fails. When retryRegisterNode
\* returns, the node watcher is started if it is not running and the
\* heartbeat timer is armed with the initial stagger.
HBRegister(ok, ttl) ==
    /\ hpc = "register"
    /\ nodeStatus' = StatusAfterRegister(nodeStatus, ok)
    /\ heartbeatTTL' = IF ok THEN ttl ELSE heartbeatTTL
    /\ IF RegisterDone(ok)
       THEN /\ hpc' = "wait"
            /\ armed' = <<"stagger", 0>>
            /\ IF npc = "off"
               THEN npc' = "wait" /\ attrsSeen' = attrs
               ELSE UNCHANGED <<npc, attrsSeen>>
       ELSE /\ hpc' = "backoff"
            /\ UNCHANGED <<armed, npc, attrsSeen>>
    /\ regCalls' = IF stale THEN Count(regCalls) ELSE regCalls
    /\ hbRegOK' = IF stale /\ ok THEN Count(hbRegOK) ELSE hbRegOK
    /\ UNCHANGED <<quorum, hbResp, attrs, stale, agentVars, watchVars, runVars, syncVars,
                   histVars, idVars, downVars>>

\* The retry interval of retryRegisterNode is over.
HBBackoffOver ==
    /\ hpc = "backoff"
    /\ hpc' = "register"
    /\ UNCHANGED <<npc, nodeStatus, heartbeatTTL, armed, quorum, hbResp, attrs, attrsSeen,
                   stale, regCalls, hbRegOK, agentVars, watchVars, runVars,
                   syncVars, histVars, idVars, downVars>>

\* The flag updateNodeStatus leaves in c.lastHeartbeatFromQuorum.
Quorum(leader) == IF leader THEN 1 ELSE 0

\* The heartbeat timer fires and updateNodeStatus succeeds: the TTL of the
\* response is stored under the heartbeat lock and the flag follows the
\* leader address.
HeartbeatOK(ttl, leader) ==
    /\ hpc = "wait"
    /\ hbResp' = [got |-> TRUE, ttl |-> ttl, leader |-> leader]
    /\ heartbeatTTL' = ttl
    /\ quorum' = Quorum(leader)
    /\ hpc' = "arm"
    /\ stale' = FALSE
    /\ regCalls' = 0
    /\ hbRegOK' = 0
    /\ UNCHANGED <<npc, nodeStatus, armed, attrs, attrsSeen, agentVars, watchVars,
                   runVars, syncVars, histVars, idVars, downVars>>

\* registerAndHeartbeat takes the heartbeat lock again and arms the timer
\* with c.heartbeatTTL.
HeartbeatArm ==
    /\ hpc = "arm"
    /\ armed' = <<"ttl", heartbeatTTL>>
    /\ hpc' = "wait"
    /\ UNCHANGED <<npc, nodeStatus, heartbeatTTL, quorum, hbResp, attrs, attrsSeen,
                   stale, regCalls, hbRegOK, agentVars, watchVars, runVars,
                   syncVars, histVars, idVars, downVars>>

\* The heartbeat timer fires and Node.UpdateStatus fails with an error that
\* holds "node not found": the loop enters retryRegisterNode.
HeartbeatNotFound ==
    /\ hpc = "wait"
    /\ hpc' = "register"
    /\ stale' = TRUE
    /\ regCalls' = 0
    /\ hbRegOK' = 0
    /\ UNCHANGED <<npc, nodeStatus, heartbeatTTL, armed, quorum, hbResp, attrs, attrsSeen,
                   agentVars, watchVars, runVars, syncVars, histVars, idVars, downVars>>

\* The heartbeat timer fires and updateNodeStatus fails otherwise: the RPC
\* fails, or RefreshServerLists fails after the TTL was stored. The timer is
\* armed with the retry interval.
HeartbeatError(stored, ttl, leader) ==
    /\ hpc = "wait"
    /\ heartbeatTTL' = IF stored THEN ttl ELSE heartbeatTTL
    /\ hbResp' = IF stored THEN [got |-> TRUE, ttl |-> ttl, leader |-> leader] ELSE hbResp
    /\ armed' = <<"retry", 0>>
    /\ stale' = FALSE
    /\ regCalls' = 0
    /\ hbRegOK' = 0
    /\ UNCHANGED <<hpc, npc, nodeStatus, quorum, attrs, attrsSeen, agentVars,
                   watchVars, runVars, syncVars, histVars, idVars, downVars>>

\* A fingerprinter changes the attributes of the node.
NodeChange ==
    /\ attrs' = 1 - attrs
    /\ UNCHANGED <<hpc, npc, nodeStatus, heartbeatTTL, armed, quorum, hbResp, attrsSeen,
                   stale, regCalls, hbRegOK, agentVars, watchVars, runVars,
                   syncVars, histVars, idVars, downVars>>

\* hasNodeChanged: the hashes differ from the ones passed in.
HasNodeChanged(old, new) == new # old

\* watchNodeUpdates: the timer fires on changed attributes and the loop
\* enters retryRegisterNode (on unchanged ones the tick does nothing).
NodeWatchTick ==
    /\ npc = "wait"
    /\ HasNodeChanged(attrsSeen, attrs)
    /\ attrsSeen' = attrs
    /\ npc' = "register"
    /\ UNCHANGED <<hpc, nodeStatus, heartbeatTTL, armed, quorum, hbResp, attrs,
                   stale, regCalls, hbRegOK, agentVars, watchVars, runVars,
                   syncVars, histVars, idVars, downVars>>

\* registerNode within retryRegisterNode, called by watchNodeUpdates.
NodeRegister(ok, ttl) ==
    /\ npc = "register"
    /\ nodeStatus' = StatusAfterRegister(nodeStatus, ok)
    /\ heartbeatTTL' = IF ok THEN ttl ELSE heartbeatTTL
    /\ npc' = IF RegisterDone(ok) THEN "wait" ELSE "backoff"
    /\ regCalls' = IF stale THEN Count(regCalls) ELSE regCalls
    /\ UNCHANGED <<hpc, armed, quorum, hbResp, attrs, attrsSeen, stale, hbRegOK,
                   agentVars, watchVars, runVars, syncVars, histVars, idVars, downVars>>

NodeBackoffOver ==
    /\ npc = "backoff"
    /\ npc' = "register"
    /\ UNCHANGED <<hpc, nodeStatus, heartbeatTTL, armed, quorum, hbResp, attrs, attrsSeen,
                   stale, regCalls, hbRegOK, agentVars, watchVars, runVars,
                   syncVars, histVars, idVars, downVars>>

\* registerAndHeartbeat sees the shutdown channel closed.
HBExit ==
    /\ hpc = "wait"
    /\ ShutdownReady(shutdown)
    /\ hpc' = "done"
    /\ UNCHANGED <<npc, nodeStatus, heartbeatTTL, armed, quorum, hbResp, attrs, attrsSeen,
                   stale, regCalls, hbRegOK, agentVars, watchVars, runVars,
                   syncVars, histVars, idVars, downVars>>

\* retryRegisterNode, called by registerAndHeartbeat, sees the shutdown
\* channel closed in its backoff and returns: the caller goes on as after a
\* registration.
HBBackoffExit ==
    /\ hpc = "backoff"
    /\ ShutdownReady(shutdown)
    /\ hpc' = "wait"
    /\ armed' = <<"stagger", 0>>
    /\ IF npc = "off"
       THEN npc' = "wait" /\ attrsSeen' = attrs
       ELSE UNCHANGED <<npc, attrsSeen>>
    /\ UNCHANGED <<nodeStatus, heartbeatTTL, quorum, hbResp, attrs,
                   stale, regCalls, hbRegOK, agentVars, watchVars, runVars,
                   syncVars, histVars, idVars, downVars>>

\* watchNodeUpdates sees the shutdown channel closed.
NodeExit ==
    /\ npc = "wait"
    /\ ShutdownReady(shutdown)
    /\ npc' = "done"
    /\ UNCHANGED <<hpc, nodeStatus, heartbeatTTL, armed, quorum, hbResp, attrs, attrsSeen,
                   stale, regCalls, hbRegOK, agentVars, watchVars, runVars,
                   syncVars, histVars, idVars, downVars>>

\* retryRegisterNode, called by watchNodeUpdates, sees the shutdown channel
\* closed in its backoff and returns to the loop.
NodeBackoffExit ==
    /\ npc = "backoff"
    /\ ShutdownReady(shutdown)
    /\ npc' = "wait"
    /\ UNCHANGED <<hpc, nodeStatus, heartbeatTTL, armed, quorum, hbResp, attrs, attrsSeen,
                   stale, regCalls, hbRegOK, agentVars, watchVars, runVars,
                   syncVars, histVars, idVars, downVars>>

\* The node is initializing and not registered.
InitUnregistered ==
    /\ hpc = "register"
    /\ npc = "off"
    /\ nodeStatus = "initializing"
    /\ heartbeatTTL = 0
    /\ armed = <<"none", 0>>
    /\ quorum = 0
    /\ hbResp = NoResponse
    /\ attrs = 0
    /\ attrsSeen = 0
    /\ stale = FALSE
    /\ regCalls = 0
    /\ hbRegOK = 0
    /\ ipc = "up"
    /\ idFile = ToBytes("u1")
    /\ nodeID = "u1"
    /\ prevID = ""
    /\ issued = {"u1"}

\* The client starts.
InitHB ==
    /\ InitAgent /\ InitWatch /\ InitRun /\ InitSync /\ InitHist /\ InitDown
    /\ InitUnregistered

NextHB ==
    \/ \E ok \in BOOLEAN, ttl \in TTLs : HBRegister(ok, ttl)
    \/ HBBackoffOver
    \/ \E ttl \in TTLs, leader \in BOOLEAN : HeartbeatOK(ttl, leader)
    \/ HeartbeatNotFound
    \/ HeartbeatArm
    \/ \E stored \in BOOLEAN, ttl \in TTLs, leader \in BOOLEAN :
            HeartbeatError(stored, ttl, leader)
    \/ NodeChange
    \/ NodeWatchTick
    \/ \E ok \in BOOLEAN, ttl \in TTLs : NodeRegister(ok, ttl)
    \/ NodeBackoffOver

SpecHB == InitHB /\ [][NextHB]_vars

\* The heartbeat loop waits for its timer after a heartbeat that found the
\* node unknown.
ReRegistering == hpc = "wait" /\ stale

\* C6 as stated: after a heartbeat failed with node not found, exactly one
\* Node.Register call is made before the next heartbeat.
RegisteredOnce == ReRegistering => regCalls = 1

\* C6: after a heartbeat failed with node not found, the heartbeat loop calls
\* Node.Register until a call succeeds: before the next heartbeat one call
\* of the loop has succeeded, after any number of failed ones, the node is
\* ready and the timer is armed with the initial stagger.
ReRegistered ==
    ReRegistering =>
        /\ hbRegOK = 1
        /\ regCalls >= 1
        /\ nodeStatus = "ready"
        /\ armed = <<"stagger", 0>>

\* The re-registration succeeded after failed calls.
ReRegisteredWitness == ReRegistering /\ regCalls = MaxTries /\ hbRegOK = 1

\* registerNode returned an error: retryRegisterNode goes to its backoff.
RegisterFailed ==
    \/ hpc = "register" /\ hpc' = "backoff"
    \/ npc = "register" /\ npc' = "backoff"

\* registerNode returned nil: retryRegisterNode returns.
RegisterSucceeded ==
    \/ hpc = "register" /\ hpc' = "wait"
    \/ npc = "register" /\ npc' = "wait"

\* C21: the node status is initializing from setup until the first
\* successful Node.Register and ready from then on: a failed Node.Register
\* leaves the status and the heartbeat TTL as they were, a successful one
\* makes the node ready and records the TTL of the response, nothing else
\* changes the status and it never leaves ready.
NodeStatusLifecycle ==
    [][/\ RegisterFailed => nodeStatus' = nodeStatus /\ heartbeatTTL' = heartbeatTTL
       /\ RegisterSucceeded => nodeStatus' = "ready" /\ heartbeatTTL' \in TTLs
       /\ nodeStatus = "ready" => nodeStatus' = "ready"
       /\ nodeStatus' # nodeStatus => RegisterSucceeded]_vars

\* A Node.Register has failed on a node that was ready.
NodeStatusLifecycleWitness ==
    /\ nodeStatus = "ready"
    /\ hpc = "backoff"
    /\ regCalls >= 1

\* C11: when the heartbeat timer is armed after a successful heartbeat, it
\* is armed with the TTL of that heartbeat's response, also when the node
\* watcher registered in between.
TimerFollowsResponse ==
    (hpc = "wait" /\ armed[1] = "ttl") => armed[2] = hbResp.ttl

\* C12: after a heartbeat response received without RPC error, the flag
\* c.lastHeartbeatFromQuorum is 1 exactly when the response names a leader,
\* also when RefreshServerLists failed.
QuorumFollowsLeader == hbResp.got => quorum = Quorum(hbResp.leader)

\* ------------------------------------------------------------------ the node ID

\* ioutil.ReadFile of the ID file: the buffer read.
ReadFile(file) == IF file.exists THEN file ELSE NoFile

\* An ID that is generated whatever the file holds.
NeverExisting(idBuf) == FALSE

\* nodeID uses the ID of the file when the buffer is not empty.
UseExisting(idBuf) == idBuf.len # 0

\* The agent starts and setupNode calls nodeID. In dev mode an ID is
\* generated. Otherwise the file is read: a read error fails the start, an
\* ID in the file is used, and without one an ID is generated and written,
\* where a write error fails the start.
NodeIDStart(u, readOK, writeOK) ==
    /\ ipc # "up"
    /\ u \in UUIDs \ issued
    /\ IF devMode
       THEN /\ nodeID' = u
            /\ issued' = issued \cup {u}
            /\ ipc' = "up"
            /\ UNCHANGED idFile
       ELSE IF ~readOK
       THEN /\ nodeID' = ""
            /\ ipc' = "failed"
            /\ UNCHANGED <<idFile, issued>>
       ELSE IF UseExisting(ReadFile(idFile))
       THEN /\ nodeID' = FromBytes(ReadFile(idFile))
            /\ ipc' = "up"
            /\ UNCHANGED <<idFile, issued>>
       ELSE /\ issued' = issued \cup {u}
            /\ IF writeOK
               THEN /\ idFile' = ToBytes(u)
                    /\ nodeID' = u
                    /\ ipc' = "up"
               ELSE /\ idFile' \in {idFile, ToBytes("")}
                    /\ nodeID' = ""
                    /\ ipc' = "failed"
    /\ UNCHANGED <<prevID, agentVars, watchVars, runVars, syncVars, histVars, hbVars, downVars>>

\* The agent process ends.
NodeIDStop ==
    /\ ipc = "up"
    /\ ipc' = "down"
    /\ prevID' = nodeID
    /\ nodeID' = ""
    /\ UNCHANGED <<idFile, issued, agentVars, watchVars, runVars, syncVars,
                   histVars, hbVars, downVars>>

\* An agent that was never started, in either mode, on an empty state
\* directory.
InitID ==
    /\ InitWatch /\ InitRun /\ InitSync /\ InitHist /\ InitDown
    /\ shutdown = FALSE
    /\ devMode \in BOOLEAN
    /\ allocs = EmptyMap
    /\ destroyed = {}
    /\ blocked = EmptyMap
    /\ allocUpdates = <<>>
    /\ hpc = "register"
    /\ npc = "off"
    /\ nodeStatus = "initializing"
    /\ heartbeatTTL = 0
    /\ armed = <<"none", 0>>
    /\ quorum = 0
    /\ hbResp = NoResponse
    /\ attrs = 0
    /\ attrsSeen = 0
    /\ stale = FALSE
    /\ regCalls = 0
    /\ hbRegOK = 0
    /\ ipc = "down"
    /\ idFile = NoFile
    /\ nodeID = ""
    /\ prevID = ""
    /\ issued = {}

NextID ==
    \/ \E u \in UUIDs, readOK \in BOOLEAN, writeOK \in BOOLEAN :
            NodeIDStart(u, readOK, writeOK)
    \/ NodeIDStop

SpecID == InitID /\ [][NextID]_vars

\* C10: outside dev mode a run has the ID of the run before it and the file
\* holds that ID; in dev mode no file is written and a run has an ID that
\* no run before it had.
NodeIDStable ==
    ipc = "up" =>
        IF devMode
        THEN idFile = NoFile /\ nodeID # prevID /\ nodeID \in issued
        ELSE idFile = ToBytes(nodeID) /\ (prevID # "" => nodeID = prevID)

\* The agent runs again with the ID it persisted in an earlier run.
NodeIDStableWitness ==
    /\ ~devMode
    /\ ipc = "up"
    /\ prevID # ""
    /\ nodeID = prevID

\* ------------------------------------------------------------------ the watcher

\* The watcher and the run loop, with servers whose indexes go up and down.
NextWatch ==
    \/ WatchPoll(0 .. MaxIndex, {1})
    \/ WatchRetry
    \/ WatchPush
    \/ RunReceive
    \/ Reconciler(RunLoop)

SpecWatch == Init /\ [][NextWatch]_vars

\* An iteration of watchAllocations got through both RPCs in this step.
PollSucceeded ==
    /\ wpc = "poll"
    /\ wpc' \in {"poll", "push"}
    /\ Len(updatesCh') > Len(updatesCh) \/ wUpdate' # <<>>

\* C9: req.MinQueryIndex never decreases, and after an iteration whose RPCs
\* succeeded it is the larger of its value before and the response index.
MinQueryIndexMonotone ==
    [][/\ MinQueryIndex' >= MinQueryIndex
       /\ PollSucceeded => MinQueryIndex' = Max(MinQueryIndex, respIndex')]_vars

\* The servers answered with an index below the one of the request.
MinQueryIndexWitness ==
    /\ wpc = "poll"
    /\ updatesCh # <<>>
    /\ respIndex < MinQueryIndex
    /\ MinQueryIndex = MaxIndex

\* The watcher over any alloc index, with servers that answer with any
\* allocations at any modify index, and a run loop that takes a record.
InitFilter ==
    /\ InitWatch /\ InitRun /\ InitSync /\ InitHist /\ InitNode
    /\ shutdown = FALSE
    /\ devMode = FALSE
    /\ \E ids \in SUBSET AllocIDs : \E idx \in [ids -> 1 .. MaxIndex] :
          allocs = [id \in ids |-> NewAllocRunner(Allocation(id, idx[id]))]
    /\ destroyed = {}
    /\ blocked = EmptyMap
    /\ allocUpdates = <<>>

NextFilter ==
    \/ WatchPollOf(SUBSET AllocIDs, {1}, 1 .. MaxIndex)
    \/ WatchRetry
    \/ WatchPush
    \/ RunReceive

SpecFilter == InitFilter /\ [][NextFilter]_vars

\* The update record this step of the watcher built.
Emitted == IF wpc' = "push" THEN wUpdate'[1] ELSE updatesCh'[Len(updatesCh')]

\* The iteration got through both RPCs and holds its record for the push.
PollHeld == wpc = "poll" /\ wpc' = "push"

\* Alloc.GetAllocs was called and failed.
GetAllocsFailed == wpc = "poll" /\ wpc' = "retry" /\ respAllocs' # EmptyMap

\* The runner set has no runner for id, or one that must be updated to idx.
MustPull(id, idx) == id \notin DOMAIN allocs \/ ShouldUpdate(allocs[id], idx)

\* C22: the watcher partitions the IDs of every successful
\* Node.GetClientAllocs response: an ID is pulled exactly when the alloc
\* index has no runner for it or the runner's shouldUpdate is true, every
\* other ID of the response is filtered, the two sets are disjoint, and
\* Alloc.GetAllocs is called only on a pull set that is not empty.
WatchPartition ==
    [][/\ PollSucceeded =>
             /\ DOMAIN Emitted.pulled \cap Emitted.filtered = {}
             /\ \A id \in DOMAIN Emitted.pulled :
                    MustPull(id, Emitted.pulled[id].AllocModifyIndex)
             /\ \A id \in Emitted.filtered : id \in DOMAIN allocs
       /\ PollHeld =>
             /\ DOMAIN Emitted.pulled \cup Emitted.filtered = DOMAIN respAllocs'
             /\ \A id \in DOMAIN respAllocs' :
                    /\ id \in DOMAIN Emitted.pulled <=> MustPull(id, respAllocs'[id])
                    /\ id \in Emitted.filtered <=> ~MustPull(id, respAllocs'[id])
       /\ GetAllocsFailed =>
             \E id \in DOMAIN respAllocs' : MustPull(id, respAllocs'[id])]_vars

\* The watcher holds a record that pulls the update of a runner and filters
\* another runner's allocation.
WatchPartitionWitness ==
    /\ wpc = "push"
    /\ wUpdate[1].filtered # {}
    /\ DOMAIN wUpdate[1].pulled \cap DOMAIN allocs # {}

\* ------------------------------------------------------------------ diffAllocs

\* runAllocs is about to receive a record with disjoint pulled and filtered
\* IDs, over any alloc index.
InitDiff ==
    /\ wpc = "poll"
    /\ MinQueryIndex = 0
    /\ respIndex = 0
    /\ respAllocs = EmptyMap
    /\ wUpdate = <<>>
    /\ \E pull \in SUBSET DiffIDs : \E filtered \in SUBSET (DiffIDs \ pull) :
          updatesCh = <<[pulled |-> [id \in pull |-> Allocation(id, MaxIndex)],
                         filtered |-> filtered]>>
    /\ InitRun /\ InitSync /\ InitHist /\ InitNode
    /\ shutdown = FALSE
    /\ devMode = FALSE
    /\ destroyed = {}
    /\ blocked = EmptyMap
    /\ allocUpdates = <<>>
    /\ \E ids \in SUBSET DiffIDs : \E terminal \in SUBSET ids :
          allocs = [id \in ids |->
                      [NewAllocRunner(Allocation(id, 1)) EXCEPT
                          !.status = IF id \in terminal THEN "complete" ELSE "pending"]]

NextDiff == RunReceive

SpecDiff == InitDiff /\ [][NextDiff]_vars

IDsOf(records) == {r.ID : r \in records}
UpdatedIDs(t) == {u.exist.ID : u \in updated[t]}

\* runAllocs computed the diff of a record in this step.
Diffed == runPc[RunLoop] = "idle" /\ runPc'[RunLoop] = "run"

InitStatus ==
    /\ InitWatch /\ InitRun /\ InitSync /\ InitNode
    /\ shutdown = FALSE
    /\ devMode = FALSE
    /\ allocs = [id \in {"a"} |-> NewAllocRunner(Allocation(id, 1))]
    /\ destroyed = {}
    /\ blocked = [id \in {"a"} |-> Allocation("b", 1)]
    /\ allocUpdates = <<>>
    /\ held = {"b"}
    /\ termSeen = {}

RunnersStep ==
    \E id \in AllocIDs :
        \/ \E s \in ClientStatuses : RunnerProgress(id, s)
        \/ RunnerSync(id)

NextStatusPath ==
    \/ RunnersStep
    \/ SyncReceive
    \/ SyncTick
    \/ SyncReply(TRUE)
    \/ SyncReply(FALSE)

SpecStatus == InitStatus /\ [][NextStatusPath]_vars

\* The goroutines are scheduled, the ticker keeps firing and Node.UpdateAlloc
\* does not fail forever.
LiveStatus ==
    /\ SpecStatus
    /\ \A id \in AllocIDs : WF_vars(RunnerSync(id))
    /\ WF_vars(SyncReceive)
    /\ WF_vars(SyncTick)
    /\ SF_vars(SyncReply(TRUE))

\* C7: when allocSync calls Node.UpdateAlloc, the request holds, for every
\* allocation it received one or more updates for since its last call,
\* exactly one entry, and that entry is the latest update received.
SyncCoalesced ==
    spc = "rpc" =>
        \A id \in AllocIDs :
            window[id] >= 1 =>
                /\ Cardinality({m \in syncReq : m.ID = id}) = 1
                /\ latest[id] \in syncReq

\* A call is in flight for an allocation that sent several updates since
\* the last call.
SyncCoalescedWitness ==
    /\ spc = "rpc"
    /\ \E id \in AllocIDs : window[id] > 1 /\ latest[id].ClientStatus = "complete"

\* The last status the runner of id handed to updateAllocStatus is s.
Settled(id, s) ==
    /\ id \in DOMAIN allocs
    /\ ~allocs[id].dirty
    /\ allocs[id].status = s

Observed(id, s) == id \in DOMAIN serverSeen /\ serverSeen[id] = s

\* Node.UpdateAlloc returned with success in this step.
SyncSucceeded == spc = "rpc" /\ spc' = "select" /\ ~staggered'

\* C8: the servers come to hold the last status a runner emitted, unless the
\* runner emits another one; and a call that succeeds leaves the servers
\* with the latest update allocSync received for each allocation it carries.
ServerObservesLatest ==
    /\ \A id \in AllocIDs : \A s \in ClientStatuses \ {"pending"} :
            Settled(id, s) ~> (Observed(id, s) \/ ~Settled(id, s))
    /\ [][SyncSucceeded =>
            \A m \in syncReq : serverSeen'[m.ID] = latest[m.ID].ClientStatus]_vars

\* The servers hold the terminal statuses of a failed allocation and of the
\* one it released.
ServerObservesLatestWitness ==
    /\ Observed("b", "complete")
    /\ Settled("b", "complete")
    /\ Observed("a", "failed")

\* Node.UpdateAlloc is called, or returns, in this step.
SyncCalled == spc = "select" /\ spc' = "rpc"
SyncReplied == spc = "rpc" /\ spc' = "select"

StartedByRun(id) ==
    \E t \in Reconcilers :
        /\ runPc[t] = "run" /\ runPc'[t] = "run"
        /\ \E add \in added[t] \ added'[t] : add.ID = id

StartedBySync(id) ==
    /\ spc = "select"
    /\ allocUpdates # <<>>
    /\ allocUpdates' = Tail(allocUpdates)
    /\ LET alloc == Head(allocUpdates)
       IN  /\ alloc.ID \in DOMAIN blocked
           /\ Terminated(alloc.ClientStatus)
           /\ blocked[alloc.ID].ID = id

Started(id) == StartedByRun(id) \/ StartedBySync(id)

\* C1: an allocation that runAllocs put into the blocked index is not
\* started (addAlloc) before allocSync has received a terminal status update
\* of its previous allocation.
BlockedWaitsForTerminal ==
    [][\A id \in AllocIDs : (id \in held /\ Started(id)) => PrevOf(id) \in termSeen']_vars

\* C2: a chained allocation is started once: addAlloc never runs for it
\* while a runner for it is installed in the alloc index.
BlockedStartedOnce ==
    [][\A id \in AllocIDs :
          (PrevOf(id) # NoAlloc /\ Started(id)) => id \notin DOMAIN allocs]_vars

\* The runner of id has reported its terminal status and allocSync has
\* received every update of id: no further update of this runner will come.
AllUpdatesReceived(id) ==
    /\ id \in DOMAIN allocs
    /\ Terminated(allocs[id].status)
    /\ ~allocs[id].dirty
    /\ id \notin destroyed
    /\ \A i \in 1..Len(allocUpdates) : allocUpdates[i].ID # id
    /\ id \in termSeen

\* C3: once the terminal update of the previous allocation has been received
\* and nothing more is to come from its runner, the blocked allocation has
\* been released and its key is gone from the blocked index.
BlockedReleasedOnTerminal ==
    \A id \in DOMAIN blocked : ~AllUpdatesReceived(id)

\* ------------------------------------------------------------------ removal order

\* The runner removeAlloc has looked up and on which it has not called
\* Destroy yet.
AwaitingDestroy(t) == runPc[t] = "destroy"

\* C13: an entry leaves the alloc index only after Destroy has been initiated
\* on its runner: a runner on which removeAlloc has still to call Destroy is
\* still in the index.
RemovedAfterDestroy ==
    \A t \in Reconcilers : AwaitingDestroy(t) => cur[t][1].ID \in DOMAIN allocs

\* ------------------------------------------------------------------ writers of the alloc index

\* This step inserts into c.allocs or deletes from it.
IndexWritten ==
    \/ DOMAIN allocs' # DOMAIN allocs
    \/ \E id \in AllocIDs : Started(id)

\* This step is one of runAllocs: it applies an entry of its diff.
ByReconciler ==
    \E t \in Reconcilers :
        /\ runPc[t] \in {"run", "block"}
        /\ <<removed[t], updated[t], added[t]>>' # <<removed[t], updated[t], added[t]>>

\* C14: while the loops run, only runAllocs and the operations it calls
\* insert into the alloc index or delete from it.
SingleWriter == [][IndexWritten => ByReconciler]_vars

\* ------------------------------------------------------------------ two reconcilers

\* Two goroutines are handed the same record, over any alloc index.
InitTwo ==
    /\ wpc = "poll"
    /\ MinQueryIndex = 0
    /\ respIndex = 0
    /\ respAllocs = EmptyMap
    /\ wUpdate = <<>>
    /\ \E pull \in SUBSET AllocIDs : \E filtered \in SUBSET (AllocIDs \ pull) :
          LET update == [pulled |-> [id \in pull |-> Allocation(id, MaxIndex)],
                         filtered |-> filtered]
          IN  updatesCh = <<update, update>>
    /\ InitRun /\ InitSync /\ InitHist /\ InitNode
    /\ shutdown = FALSE
    /\ devMode = FALSE
    /\ destroyed = {}
    /\ blocked = EmptyMap
    /\ allocUpdates = <<>>
    /\ \E ids \in SUBSET AllocIDs : \E terminal \in SUBSET ids :
          allocs = [id \in ids |->
                      [NewAllocRunner(Allocation(id, 1)) EXCEPT
                          !.status = IF id \in terminal THEN "complete" ELSE "pending"]]

\* runAllocs(update) is invoked by goroutine t.
TwoInvoke(t) ==
    /\ updatesCh # <<>>
    /\ runPc[t] = "idle"
    /\ StartPass(t, Head(updatesCh))
    /\ updatesCh' = Tail(updatesCh)
    /\ UNCHANGED <<agentVars, wpc, MinQueryIndex, respIndex, respAllocs, wUpdate, cur,
                   syncVars, histVars, nodeVars>>

NextTwo == \E t \in Reconcilers : TwoInvoke(t) \/ Reconciler(t)

SpecTwo == InitTwo /\ [][NextTwo]_vars

\* C5: of two invocations of runAllocs with the same record, neither
\* creates a runner for an ID that is in the alloc index.
ReconcileIdempotent ==
    [][\A id \in AllocIDs : StartedByRun(id) => id \notin DOMAIN allocs]_vars

\* ------------------------------------------------------------------ order of a pass

\* Two goroutines are handed the same record with any mix of entries, over
\* any alloc index: the second finds runners the first one removed missing.
InitPass ==
    /\ wpc = "poll"
    /\ MinQueryIndex = 0
    /\ respIndex = 0
    /\ respAllocs = EmptyMap
    /\ wUpdate = <<>>
    /\ \E pull \in SUBSET PassIDs : \E filtered \in SUBSET (PassIDs \ pull) :
          LET update == [pulled |-> [id \in pull |-> Allocation(id, MaxIndex)],
                         filtered |-> filtered]
          IN  updatesCh = <<update, update>>
    /\ InitRun /\ InitSync /\ InitHist /\ InitNode
    /\ shutdown = FALSE
    /\ devMode = FALSE
    /\ destroyed = {}
    /\ blocked = EmptyMap
    /\ allocUpdates = <<>>
    /\ \E ids \in SUBSET PassIDs : \E terminal \in SUBSET ids :
          allocs = [id \in ids |->
                      [NewAllocRunner(Allocation(id, 1)) EXCEPT
                          !.status = IF id \in terminal THEN "complete" ELSE "pending"]]

NextPass == \E t \in Reconcilers : TwoInvoke(t) \/ Reconciler(t)

SpecPass == InitPass /\ [][NextPass]_vars

\* The entries of goroutine t's diff that are still to be applied.
Pending(t) == <<removed[t], updated[t], added[t]>>

Entries(t) == Cardinality(removed[t]) + Cardinality(updated[t]) + Cardinality(added[t])

\* C23: in every pass the diff is applied in the order removed, updated,
\* added and the pass ends, with the state saved, after all three: no
\* update is applied before every remove is done, no add before every
\* remove and update is done, an entry that finds its runner missing leaves
\* the remaining entries to be applied, and the pass does not end with an
\* entry left.
PassInOrder ==
    [][\A t \in Reconcilers :
          /\ (runPc[t] # "idle" /\ updated'[t] # updated[t]) =>
                 runPc[t] = "run" /\ removed[t] = {}
          /\ (runPc[t] # "idle" /\ added'[t] # added[t]) =>
                 runPc[t] = "run" /\ removed[t] = {} /\ updated[t] = {}
          /\ (runPc[t] # "idle" /\ Pending(t)' # Pending(t)) =>
                 /\ runPc'[t] # "idle"
                 /\ removed'[t] \subseteq removed[t]
                 /\ updated'[t] \subseteq updated[t]
                 /\ added'[t] \subseteq added[t]
                 /\ Entries(t) = Entries(t)' + 1
          /\ (runPc[t] # "idle" /\ runPc'[t] = "idle") =>
                 runPc[t] = "run" /\ removed[t] = {} /\ updated[t] = {} /\ added[t] = {}]_vars

\* The run loop has removed a runner and updated another and has an entry
\* to add left.
PassInOrderWitness ==
    /\ runPc[RunLoop] = "run"
    /\ removed[RunLoop] = {} /\ updated[RunLoop] = {} /\ added[RunLoop] # {}
    /\ destroyed # {}
    /\ \E id \in DOMAIN allocs :
          allocs[id].alloc.AllocModifyIndex = MaxIndex /\ allocs[id].status = "complete"

\* ------------------------------------------------------------------ arrival of a chain

\* The run loop is about to receive one record over the chain a, b, c, over
\* any alloc index.
InitArrival ==
    /\ wpc = "poll"
    /\ MinQueryIndex = 0
    /\ respIndex = 0
    /\ respAllocs = EmptyMap
    /\ wUpdate = <<>>
    /\ \E pull \in SUBSET PassIDs : \E filtered \in SUBSET (PassIDs \ pull) :
          updatesCh = <<[pulled |-> [id \in pull |-> Allocation(id, MaxIndex)],
                         filtered |-> filtered]>>
    /\ InitRun /\ InitSync /\ InitHist /\ InitNode
    /\ shutdown = FALSE
    /\ devMode = FALSE
    /\ destroyed = {}
    /\ blocked = EmptyMap
    /\ allocUpdates = <<>>
    /\ \E ids \in SUBSET PassIDs : \E terminal \in SUBSET ids :
          allocs = [id \in ids |->
                      [NewAllocRunner(Allocation(id, 1)) EXCEPT
                          !.status = IF id \in terminal THEN "complete" ELSE "pending"]]

NextArrival == RunReceive \/ Reconciler(RunLoop)

SpecArrival == InitArrival /\ [][NextArrival]_vars

\* C24: when a pass adds an allocation and its previous allocation, neither
\* of them in the alloc index before the pass, the pass does not start the
\* successor: it goes to the blocked index, in whatever order the added
\* entries are taken.
ArrivalBlocksSuccessor ==
    [][\A add \in added[RunLoop] :
          add.PreviousAllocation \in IDsOf(added[RunLoop]) => ~StartedByRun(add.ID)]_vars

\* The allocation is known to the agent: it has a runner or waits in the
\* blocked index.
Known(id) == id \in DOMAIN allocs \/ \E k \in DOMAIN blocked : blocked[k].ID = id

\* C26: an allocation whose previous allocation is known to the agent is
\* started only when the previous allocation has a runner that is terminal,
\* also when the previous allocation itself waits in the blocked index.
ChainInOrder ==
    [][\A id \in PassIDs :
          (Started(id) /\ Known(PrevOf(id))) =>
              /\ PrevOf(id) \in DOMAIN allocs
              /\ Terminated(allocs[PrevOf(id)].status)]_vars

\* ------------------------------------------------------------------ a blocked allocation is dropped

\* a runs and b waits for it in the blocked index; the run loop is about to
\* receive a record that has b in neither pulled nor filtered.
InitDrop ==
    /\ wpc = "poll"
    /\ MinQueryIndex = 0
    /\ respIndex = 0
    /\ respAllocs = EmptyMap
    /\ wUpdate = <<>>
    /\ \E pull \in SUBSET (PassIDs \ {"b"}) : \E filtered \in SUBSET (PassIDs \ ({"b"} \cup pull)) :
          updatesCh = <<[pulled |-> [id \in pull |-> Allocation(id, MaxIndex)],
                         filtered |-> filtered]>>
    /\ InitRun /\ InitSync /\ InitNode
    /\ shutdown = FALSE
    /\ devMode = FALSE
    /\ allocs = [id \in {"a"} |-> NewAllocRunner(Allocation(id, 1))]
    /\ destroyed = {}
    /\ blocked = [id \in {"a"} |-> Allocation("b", 1)]
    /\ allocUpdates = <<>>
    /\ held = {"b"}
    /\ termSeen = {}

NextDrop == RunReceive \/ Reconciler(RunLoop) \/ Runners \/ SyncReceive

SpecDrop == InitDrop /\ [][NextDrop]_vars

\* runAllocs has applied the record.
PassDone == updatesCh = <<>> /\ runPc[RunLoop] = "idle"

\* C27: once a record that leaves out the blocked allocation b has been
\* applied, no runner is created for b, also when its previous allocation
\* becomes terminal.
DroppedNeverStarts == [][PassDone => ~Started("b")]_vars

\* ------------------------------------------------------------------ the blocked index

\* One record over the chain a, b, c arrives over any alloc index, the
\* runners finish and allocSync releases what they block.
SpecRelease == InitArrival /\ [][NextDrop]_vars

\* allocSync releases the allocation a terminal update unblocks.
Released == \E id \in PassIDs : StartedBySync(id)

\* C30: every entry of the blocked index is keyed by its own previous
\* allocation, and a release deletes exactly the key whose terminal update
\* allocSync received: the index shrinks by that one entry.
BlockedKeyedByPrev ==
    /\ [](\A k \in DOMAIN blocked : blocked[k].PreviousAllocation = k)
    /\ [][Released =>
            /\ DOMAIN blocked' = DOMAIN blocked \ {Head(allocUpdates).ID}
            /\ Cardinality(DOMAIN blocked') = Cardinality(DOMAIN blocked) - 1
            /\ \A k \in DOMAIN blocked' : blocked'[k] = blocked[k]]_vars

\* The entry under a has been released and deleted and the entry under b
\* is still there.
BlockedKeyedByPrevWitness ==
    /\ "a" \in termSeen
    /\ "a" \notin DOMAIN blocked
    /\ "b" \in DOMAIN blocked
    /\ "b" \in DOMAIN allocs
    /\ updatesCh = <<>>

\* ------------------------------------------------------------------ the locks

\* The lock operations of addAlloc: the config lock is read-locked for
\* NewAllocRunner and released, then the alloc lock is taken for the store.
AddAllocOps ==
    <<<<"RLock", "config">>, <<"RUnlock", "config">>, <<"Lock", "alloc">>, <<"Unlock", "alloc">>>>

\* The lock operations of Node().
NodeOps == <<<<"RLock", "config">>, <<"RUnlock", "config">>>>

\* The lock operations of getAllocRunners.
GetAllocRunnersOps == <<<<"RLock", "alloc">>, <<"RUnlock", "alloc">>>>

\* allocSync releasing a blocked allocation: addAlloc under the blocked lock.
SyncOps == <<<<"Lock", "blocked">>>> \o AddAllocOps \o <<<<"Unlock", "blocked">>>>

\* Stats: the alloc lock for len(c.allocs), then Node() under the heartbeat lock.
StatsOps ==
    GetAllocRunnersOps \o <<<<"Lock", "heartbeat">>>> \o NodeOps \o <<<<"Unlock", "heartbeat">>>>

\* A runAllocs that keeps the alloc lock while it takes the blocked lock.
RunOpsNested ==
    <<<<"RLock", "alloc">>, <<"Lock", "blocked">>, <<"Unlock", "blocked">>, <<"RUnlock", "alloc">>>>

\* runAllocs: the snapshot, removeAlloc, updateAlloc, the runners read for
\* the chain guard, the blocked index, addAlloc, and saveState.
RunOps ==
    GetAllocRunnersOps
    \o <<<<"Lock", "alloc">>, <<"Unlock", "alloc">>>>
    \o GetAllocRunnersOps
    \o GetAllocRunnersOps
    \o <<<<"Lock", "blocked">>, <<"Unlock", "blocked">>>>
    \o AddAllocOps
    \o GetAllocRunnersOps

\* registerAndHeartbeat: registerNode, updateNodeStatus and the read of
\* c.heartbeatTTL for the timer.
HeartbeatOps ==
    NodeOps \o <<<<"Lock", "config">>, <<"Unlock", "config">>,
                 <<"Lock", "heartbeat">>, <<"Unlock", "heartbeat">>>>
    \o NodeOps \o <<<<"Lock", "heartbeat">>, <<"Unlock", "heartbeat">>>>
    \o <<<<"Lock", "heartbeat">>, <<"Unlock", "heartbeat">>>>

\* fingerprintPeriodic: the fingerprinter runs under the config lock.
FingerprintOps == <<<<"Lock", "config">>, <<"Unlock", "config">>>>

\* Shutdown in dev mode: the shutdown lock, the alloc lock over the loop
\* that waits for the runners, and the return.
ShutdownOps ==
    <<<<"Lock", "shutdown">>, <<"Lock", "alloc">>, <<"Wait", "WaitCh">>, <<"Unlock", "alloc">>,
      <<"Unlock", "shutdown">>>>

LockOps(t) ==
    CASE t = "allocSync" -> SyncOps
      [] t = "runAllocs" -> RunOps
      [] t = "Stats" -> StatsOps
      [] t = "registerAndHeartbeat" -> HeartbeatOps
      [] t = "fingerprintPeriodic" -> FingerprintOps
      [] t = "Shutdown" -> ShutdownOps

\* The operation thread t is about to execute.
NextOp(t) == LockOps(t)[lk[t]]

\* The locks thread t holds, with the mode it holds them in.
HeldBy(t) ==
    LET ops == LockOps(t)
        acquired == {i \in 1 .. lk[t] - 1 : ops[i][1] \in {"Lock", "RLock"}}
        released(i) == \E j \in i + 1 .. lk[t] - 1 :
                          ops[j][1] \in {"Unlock", "RUnlock"} /\ ops[j][2] = ops[i][2]
    IN  {ops[i] : i \in {k \in acquired : ~released(k)}}

\* sync.RWMutex: thread u holds the lock thread t is about to take, in a
\* mode that excludes t.
WaitsFor(t, u) ==
    /\ u # t
    /\ \/ NextOp(t)[1] = "Lock" /\ \E h \in HeldBy(u) : h[2] = NextOp(t)[2]
       \/ NextOp(t)[1] = "RLock" /\ <<"Lock", NextOp(t)[2]>> \in HeldBy(u)

\* A writer waits for the lock: sync.RWMutex lets no new reader in.
WriterWaits(u, lock) == NextOp(u) = <<"Lock", lock>> /\ \E v \in LockThreads : WaitsFor(u, v)

LockBlocked(t) ==
    \/ \E u \in LockThreads : WaitsFor(t, u)
    \/ NextOp(t)[1] = "RLock" /\ \E u \in LockThreads \ {t} : WriterWaits(u, NextOp(t)[2])

\* Thread t executes its next operation, and starts over after the last.
LockStep(t) ==
    /\ ~LockBlocked(t)
    /\ lk' = [lk EXCEPT ![t] = IF @ = Len(LockOps(t)) THEN 1 ELSE @ + 1]
    /\ UNCHANGED <<agentVars, watchVars, runVars, syncVars, histVars, hbVars, idVars,
                   allocLock, shutdownLock, tpc, todo, tally, lpc, boot>>

NextLocks == \E t \in LockThreads : LockStep(t)

SpecLocks == Init /\ [][NextLocks]_vars

\* The locks the claim is about.
ClientLocks == {"config", "alloc", "blocked", "heartbeat"}

\* Every thread of the set holds one of the locks and waits for a lock a
\* thread of the set holds.
LockCycle(S) ==
    \A t \in S :
        /\ \E h \in HeldBy(t) : h[2] \in ClientLocks
        /\ \E u \in S : WaitsFor(t, u)

\* C29: the locks are taken in an acyclic order: in no state is there a set
\* of threads each holding a lock and waiting for a lock another of them
\* holds, and a thread that holds the config lock or the alloc lock waits
\* for no lock.
LocksAcyclic ==
    /\ \A S \in SUBSET LockThreads \ {{}} : ~LockCycle(S)
    /\ \A t \in LockThreads :
          (\E h \in HeldBy(t) : h[2] \in {"config", "alloc"}) =>
              NextOp(t)[1] \notin {"Lock", "RLock"}

\* allocSync holds the blocked lock and waits for the alloc lock while
\* Stats holds the heartbeat lock and waits for the config lock.
LocksAcyclicWitness ==
    /\ <<"Lock", "blocked">> \in HeldBy("allocSync")
    /\ \E u \in LockThreads : WaitsFor("allocSync", u)
    /\ <<"Lock", "heartbeat">> \in HeldBy("Stats")
    /\ \E u \in LockThreads : WaitsFor("Stats", u)

\* ------------------------------------------------------------------ NewClient: fingerprint, restoreState

\* The fingerprinter is not skipped: the whitelist is empty or names it.
Whitelisted(whitelist, name) == whitelist = {} \/ name \in whitelist

\* fingerprint: one turn of the loop over the built-in fingerprinters. A
\* fingerprinter the whitelist leaves out is skipped; an error of
\* NewFingerprint or of Fingerprint is returned at once, and NewClient
\* returns it.
Fingerprint(ok) ==
    /\ boot.pc = "fingerprint"
    /\ boot.fps # <<>>
    /\ LET name == Head(boot.fps)
       IN  IF ~Whitelisted(boot.whitelist, name)
           THEN boot' = [boot EXCEPT !.fps = Tail(@)]
           ELSE IF ok \/ ~CanFail(name)
                THEN boot' = [boot EXCEPT !.fps = Tail(@), !.ran = @ \cup {name}]
                ELSE boot' = [boot EXCEPT !.pc = "failed", !.fpErr = @ \cup {name}]
    /\ UNCHANGED <<agentVars, watchVars, runVars, syncVars, histVars, hbVars, idVars,
                   allocLock, shutdownLock, tpc, todo, tally, lpc, lk>>

\* fingerprint returns nil and NewClient goes on to restoreState, which
\* returns nil at once in dev mode and lists the state directory otherwise:
\* a directory that cannot be listed is an error unless it does not exist.
FingerprintDone(listed) ==
    /\ boot.pc = "fingerprint"
    /\ boot.fps = <<>>
    /\ boot' = [boot EXCEPT !.pc = IF devMode THEN "started"
                                   ELSE IF listed THEN "restore" ELSE "failed"]
    /\ UNCHANGED <<agentVars, watchVars, runVars, syncVars, histVars, hbVars, idVars,
                   allocLock, shutdownLock, tpc, todo, tally, lpc, lk>>

\* restoreState: one entry of the state directory. The runner is created
\* and stored; RestoreState fails and the error is collected, or the runner
\* is launched.
Restore(ok) ==
    /\ boot.pc = "restore"
    /\ boot.entries # <<>>
    /\ allocLock = 0
    /\ LET id == Head(boot.entries)
       IN  /\ allocs' = Put(allocs, id, NewAllocRunner(Allocation(id, IF ok THEN 1 ELSE 0)))
           /\ boot' = [boot EXCEPT !.entries = Tail(@),
                                   !.mErr = IF ok THEN @ ELSE @ \cup {id},
                                   !.launched = IF ok THEN @ \cup {id} ELSE @]
    /\ UNCHANGED <<shutdown, devMode, destroyed, blocked, allocUpdates, watchVars, runVars,
                   syncVars, histVars, hbVars, idVars,
                   allocLock, shutdownLock, tpc, todo, tally, lpc, lk>>

\* mErr.ErrorOrNil() is an error when an error was collected.
ErrorOrNil(mErr) == mErr # {}

\* restoreState returns mErr.ErrorOrNil(); NewClient returns the error, or
\* starts the loops and returns the client.
RestoreDone ==
    /\ boot.pc = "restore"
    /\ boot.entries = <<>>
    /\ boot' = [boot EXCEPT !.pc = IF ErrorOrNil(boot.mErr) THEN "failed" ELSE "started"]
    /\ UNCHANGED <<agentVars, watchVars, runVars, syncVars, histVars, hbVars, idVars,
                   allocLock, shutdownLock, tpc, todo, tally, lpc, lk>>

\* The state directories NewClient can find: ReadDir lists by name.
StateDirs == {<<>>, <<"a">>, <<"b">>, <<"a", "b">>}

\* The names a whitelist can hold.
FingerprintNames == {BuiltinFingerprints[i] : i \in DOMAIN BuiltinFingerprints}

InitBoot ==
    /\ InitWatch /\ InitRun /\ InitSync /\ InitHist /\ InitShut /\ InitUnregistered
    /\ shutdown = FALSE
    /\ devMode \in BOOLEAN
    /\ allocs = EmptyMap
    /\ destroyed = {}
    /\ blocked = EmptyMap
    /\ allocUpdates = <<>>
    /\ \E whitelist \in SUBSET FingerprintNames, entries \in StateDirs :
          boot = [pc |-> "fingerprint", whitelist |-> whitelist, fps |-> BuiltinFingerprints,
                  ran |-> {}, fpErr |-> {}, entries |-> entries, mErr |-> {},
                  launched |-> {}]

NextBoot ==
    \/ \E ok \in BOOLEAN : Fingerprint(ok)
    \/ \E listed \in BOOLEAN : FingerprintDone(listed)
    \/ \E ok \in BOOLEAN : Restore(ok)
    \/ RestoreDone

SpecBoot == InitBoot /\ [][NextBoot]_vars

\* NewClient has returned an error.
Aborted == boot.pc = "failed"

\* C18: a restore error for one allocation does not abort the agent: the
\* error is collected, the remaining allocations are restored and launched,
\* and NewClient completes.
RestoreErrorTolerated ==
    boot.mErr # {} =>
        /\ ~Aborted
        /\ boot.entries = <<>> => boot.launched = DOMAIN allocs \ boot.mErr

\* C19: an error of one fingerprinter at boot is not fatal: every other
\* enabled fingerprinter still runs once and NewClient is not aborted.
FingerprintErrorTolerated ==
    boot.fpErr # {} =>
        /\ ~Aborted
        /\ boot.pc # "fingerprint" =>
              \A name \in FingerprintNames \ boot.fpErr :
                  Whitelisted(boot.whitelist, name) => name \in boot.ran

\* ------------------------------------------------------------------ the loops at shutdown

\* One Shutdown call, not in dev mode, on a client whose servers always
\* list allocation a, know the node, name a leader and grant the same TTL,
\* and whose node attributes do not change: removeAlloc, the blocking of a
\* chained allocation, the re-registration and the registration of the node
\* watcher are never called for.
NextStop ==
    \/ ShutdownEnter(1)
    \/ ShutdownClose(1)
    \/ WatchPollOf({{"a"}}, {1}, {1})
    \/ WatchRetry
    \/ WatchPush
    \/ WatchExit
    \/ RunReceive
    \/ UpdateAlloc(RunLoop)
    \/ AddOrBlock(RunLoop)
    \/ FinishPass(RunLoop)
    \/ RunExit
    \/ \E id \in AllocIDs :
          \/ RunnerProgress(id, "complete")
          \/ RunnerSync(id)
          \/ RunnerSyncDropped(id)
    \/ SyncReceive
    \/ SyncTick
    \/ \E ok \in BOOLEAN : SyncReply(ok)
    \/ SyncExit
    \/ \E ok \in BOOLEAN : HBRegister(ok, 1)
    \/ HBBackoffOver
    \/ HeartbeatOK(1, TRUE)
    \/ HeartbeatArm
    \/ HeartbeatError(FALSE, 1, TRUE)
    \/ HBExit
    \/ HBBackoffExit
    \/ NodeExit
    \/ \E l \in Tickers : Tick(l) \/ TickerExit(l)

SpecStop == InitHB /\ [][NextStop]_vars

\* A loop takes the timer case of its select: the heartbeat timer, the
\* backoff of retryRegisterNode, the watcher's retry timer, allocSync's ticker.
TimerTaken ==
    \/ hpc = "wait" /\ hpc' \in {"arm", "register"}
    \/ hpc = "backoff" /\ hpc' = "register"
    \/ wpc = "retry" /\ wpc' = "poll"
    \/ spc = "select" /\ spc' = "rpc"

\* A loop takes the message case of its select: allocSync a status update,
\* run an update record.
MessageTaken ==
    \/ Len(allocUpdates') < Len(allocUpdates)
    \/ Len(updatesCh') < Len(updatesCh)

\* C16: the shutdown signal wins over every timer and backoff: once the
\* shutdown channel is closed no loop acts on a timer tick or on a channel
\* message.
ShutdownWins == [][shutdown => ~(TimerTaken \/ MessageTaken)]_vars

\* A loop takes the shutdown case of its select, or a producer the one of
\* updateAllocStatus.
Exits ==
    \/ WatchExit
    \/ RunExit
    \/ SyncExit
    \/ HBExit
    \/ HBBackoffExit
    \/ NodeExit
    \/ \E l \in Tickers : TickerExit(l)
    \/ \E id \in AllocIDs : RunnerSyncDropped(id)

\* The goroutines are scheduled and every RPC in flight returns; a select
\* whose shutdown case is ready again and again takes it in the end.
LiveStop == SpecStop /\ WF_vars(NextStop) /\ SF_vars(Exits)

\* No producer is blocked in updateAllocStatus.
ProducersReleased ==
    /\ destroyed = {}
    /\ \A id \in DOMAIN allocs : ~allocs[id].dirty

\* Every long-lived loop has returned.
LoopsStopped ==
    /\ hpc = "done"
    /\ npc = "done"
    /\ wpc = "done"
    /\ runPc[RunLoop] = "done"
    /\ spc = "done"
    /\ \A l \in Tickers : lpc[l] = "done"

\* C17: once the shutdown channel is closed, every long-lived loop
\* eventually returns and every producer blocked in updateAllocStatus is
\* released, when scheduling is fair and every RPC in flight returns.
ShutdownStopsLoops == shutdown ~> (LoopsStopped /\ ProducersReleased)

\* The channel is closed while the heartbeat loop is in the backoff of
\* retryRegisterNode, the watcher in its push and a runner has an update to
\* send.
ShutdownStopsLoopsWitness ==
    /\ shutdown
    /\ hpc = "backoff"
    /\ wpc = "push"
    /\ \E id \in DOMAIN allocs : allocs[id].dirty

====
